---- MODULE Spec2Model ----
(***************************************************************************)
(* Model of sfrc_residual_strength_app.py: a Streamlit script that reads   *)
(* material inputs from widgets, validates them against fixed ranges,      *)
(* gates the Compute button, and evaluates the fR,1 / fR,3 power laws.     *)
(*                                                                         *)
(* A Streamlit script is re-executed top to bottom on every widget event.  *)
(* The state of the program is therefore the widget values plus what the   *)
(* last execution rendered; every action below is one user event followed  *)
(* by one complete execution of the script.                                *)
(*                                                                         *)
(* Python floats are modelled as fixed-point integers: the integer n       *)
(* stands for the real n / Q.  Transcendental operations (the ** operator) *)
(* are computed by range reduction and truncated series, so values agree   *)
(* with the float results to about three significant digits.               *)
(***************************************************************************)
EXTENDS Integers, Sequences, FiniteSets

\* Fixed-point resolution: one unit is 1/Q.
Q == 10000

\* ln 2 in fixed point, used by the range reductions of Ln and Exp.
LN2 == 6931

Abs(x) == IF x < 0 THEN -x ELSE x

Max2(a, b) == IF a >= b THEN a ELSE b

Min2(a, b) == IF a <= b THEN a ELSE b

\* Float product a * b for b >= 0 (split so that no intermediate exceeds 32 bits).
MulPos(a, b) ==
    LET hi == Max2(a, b)
        lo == Min2(a, b)
    IN  (hi \div Q) * lo + ((hi % Q) * lo) \div Q

\* Float product a * b.
Mul(a, b) ==
    IF (a < 0) = (b < 0) THEN MulPos(Abs(a), Abs(b)) ELSE -MulPos(Abs(a), Abs(b))

\* Float quotient a / b for a >= 0, b > 0.
DivPos(a, b) ==
    IF b % Q = 0 THEN a \div (b \div Q)
    ELSE (a \div b) * Q + ((a % b) * Q) \div b

\* Float quotient a / b, b # 0.
Div(a, b) ==
    IF (a < 0) = (b < 0) THEN DivPos(Abs(a), Abs(b)) ELSE -DivPos(Abs(a), Abs(b))

\* ln m for Q <= m < 2Q:  2 * atanh((m-1)/(m+1)) by its series.
LnSeries(m) ==
    LET z  == ((m - Q) * Q) \div (m + Q)
        z2 == (z * z) \div Q
        z3 == (z * z2) \div Q
        z5 == (z3 * z2) \div Q
        z7 == (z5 * z2) \div Q
        z9 == (z7 * z2) \div Q
    IN  2 * (z + z3 \div 3 + z5 \div 5 + z7 \div 7 + z9 \div 9)

RECURSIVE Ln(_)
\* ln x for x > 0.
Ln(x) ==
    IF x >= 2 * Q THEN LN2 + Ln(x \div 2)
    ELSE IF x < Q THEN Ln(2 * x) - LN2
    ELSE LnSeries(x)

\* e^r for 0 <= r < ln 2, by its Taylor series.
ExpSeries(r) ==
    LET r2 == (r * r) \div Q
        r3 == (r2 * r) \div Q
        r4 == (r3 * r) \div Q
        r5 == (r4 * r) \div Q
        r6 == (r5 * r) \div Q
        r7 == (r6 * r) \div Q
    IN  Q + r + r2 \div 2 + r3 \div 6 + r4 \div 24 + r5 \div 120
          + r6 \div 720 + r7 \div 5040

RECURSIVE Shift(_, _)
\* v * 2^k.
Shift(v, k) ==
    IF k = 0 THEN v
    ELSE IF k > 0 THEN Shift(2 * v, k - 1)
    ELSE Shift(v \div 2, k + 1)

\* e^y.
Exp(y) ==
    LET k == y \div LN2
        r == y - k * LN2
    IN  Shift(ExpSeries(r), k)


(***************************************************************************)
(* Fixed model parameters and validity limits (module level of the script) *)
(***************************************************************************)
\* PARAMS_FR1 = dict(a=6.939, b=0.448, c=0.377, d=0.265, const=-3.823)
PARAMS_FR1 == [a |-> 69390, b |-> 4480, c |-> 3770, d |-> 2650, const |-> -38230]

\* PARAMS_FR3 = dict(a=12.000, b=0.613, c=0.370, d=0.247, e=0.411, f=0.313, const=-1.506)
PARAMS_FR3 ==
    [a |-> 120000, b |-> 6130, c |-> 3700, d |-> 2470, e |-> 4110, f |-> 3130,
     const |-> -15060]

\* SCALE: k_char, k_design and gamma of each target.
SCALE ==
    [fR1 |-> [k_char |-> 6700, k_design |-> 4900, gamma |-> 13600],
     fR3 |-> [k_char |-> 6200, k_design |-> 4300, gamma |-> 14500]]

FC_MIN == 220000
FC_MAX == 790000
VF_PCT_MIN == 2000
VF_PCT_MAX == 20000
VF_DEC_MIN == 20
VF_DEC_MAX == 200
LAMBDA_MIN == 380000
LAMBDA_MAX == 1000000
FFU_MIN == 10000000
FFU_MAX == 32000000
FC_FROM_FCU == 8200

(***************************************************************************)
(* Python values: a float, a complex number (what ** yields for a negative *)
(* base and a fractional exponent), or a raised exception.                 *)
(***************************************************************************)
Float(v) == [t |-> "float", v |-> v, exc |-> "none"]

Complex == [t |-> "complex", v |-> 0, exc |-> "none"]

NaN == [t |-> "nan", v |-> 0, exc |-> "none"]

Raise(e) == [t |-> "raise", v |-> 0, exc |-> e]

\* x ** e for a float x and a positive fractional exponent e.
Pow(x, e) ==
    IF x > 0 THEN Float(Exp(Mul(e, Ln(x))))
    ELSE IF x = 0 THEN Float(0)
    ELSE Complex

\* The product of a float coefficient and a sequence of ** results, plus const:
\* complex as soon as one factor is complex.
RECURSIVE Product(_, _)
Product(acc, fs) ==
    IF fs = << >> THEN acc
    ELSE Product(Mul(acc, Head(fs).v), Tail(fs))

PowerLaw(a, fs, const) ==
    IF \E i \in 1..Len(fs) : fs[i].t = "complex" THEN Complex
    ELSE Float(Product(a, fs) + const)

\* Variant: the safeguard left out.
clamp_missing(x) ==
    IF x.t = "float" THEN Float(x.v)
    ELSE Raise("TypeError")

clamp_nonnegative(x) ==
    IF x.t = "float" THEN Float(Max2(0, x.v))
    ELSE Raise("TypeError")

fr1_pred(vf_dec, lf_mm, df_mm, fc_mpa) ==
    LET p == PARAMS_FR1
    IN  IF df_mm = 0 THEN Raise("ZeroDivisionError")
        ELSE PowerLaw(p.a,
                      << Pow(vf_dec, p.b), Pow(Div(lf_mm, df_mm), p.c),
                         Pow(fc_mpa, p.d) >>,
                      p.const)

fr3_pred(vf_dec, lf_mm, df_mm, fc_mpa, ffu_mpa) ==
    LET p == PARAMS_FR3
        ffu_star == Div(ffu_mpa, 1000 * Q)
        lf_star == Div(lf_mm, 50 * Q)
    IN  IF df_mm = 0 THEN Raise("ZeroDivisionError")
        ELSE PowerLaw(p.a,
                      << Pow(vf_dec, p.b), Pow(Div(lf_mm, df_mm), p.c),
                         Pow(fc_mpa, p.d), Pow(ffu_star, p.e), Pow(lf_star, p.f) >>,
                      p.const)

\* Variant: strict comparisons.
in_range_exclusive(x, lo, hi) == (x > lo) /\ (x < hi)

in_range(x, lo, hi) == (x >= lo) /\ (x <= hi)


(***************************************************************************)
(* Program state                                                           *)
(***************************************************************************)
VARIABLES
    page,           \* sidebar radio "Navigation"
    vf_mode,        \* sidebar radio "V_f input"
    strength_mode,  \* sidebar radio "Concrete strength input"
    allow_extrap,   \* sidebar checkbox "Allow extrapolation"
    calc_fr1,       \* checkbox "Compute fR,1"
    calc_fr3,       \* checkbox "Compute fR,3"
    vf_in,          \* number input V_f (percent or decimal, after vf_mode)
    lf,             \* number input l_f (mm)
    df,             \* number input d_f (mm)
    strength_in,    \* number input f_c or f_cu (MPa), after strength_mode
    ffu,            \* number input f_fu (MPa)
    warnings,       \* the list `warnings` of the last execution
    can_compute,    \* whether the last execution rendered the button enabled
    all_valid,      \* whether the last execution rendered the st.success banner
    panel           \* what the last execution rendered under "Results"

vars ==
    << page, vf_mode, strength_mode, allow_extrap, calc_fr1, calc_fr3, vf_in, lf,
       df, strength_in, ffu, warnings, can_compute, all_valid, panel >>

\* The widget values as one record.
Widgets ==
    [page |-> page, vf_mode |-> vf_mode, strength_mode |-> strength_mode,
     allow_extrap |-> allow_extrap, calc_fr1 |-> calc_fr1, calc_fr3 |-> calc_fr3,
     vf_in |-> vf_in, lf |-> lf, df |-> df, strength_in |-> strength_in,
     ffu |-> ffu]

\* value= of the two V_f number inputs and of the two strength number inputs.
VfDefault(mode) == IF mode = "Percent" THEN 10000 ELSE 100

StrengthDefault(mode) == IF mode = "fc" THEN 400000 ELSE 500000

\* The value= defaults of the calculator page's widgets.
CalculatorDefaults(w) ==
    [w EXCEPT !.calc_fr1 = TRUE, !.calc_fr3 = TRUE,
              !.vf_in = VfDefault(w.vf_mode), !.lf = 500000, !.df = 7500,
              !.strength_in = StrengthDefault(w.strength_mode),
              !.ffu = 20000000]

\* vf_dec = vf_in / 100.0 in percent mode, vf_in otherwise.
VfDec(w) == IF w.vf_mode = "Percent" THEN Div(w.vf_in, 100 * Q) ELSE w.vf_in

\* fc as entered, or fc = FC_FROM_FCU * fcu.
Fc(w) ==
    IF w.strength_mode = "fc" THEN w.strength_in
    ELSE Mul(FC_FROM_FCU, w.strength_in)

(***************************************************************************)
(* Validation block                                                        *)
(***************************************************************************)
Warning(kind, value) == [kind |-> kind, value |-> value]

\* warnings.append(x) when cond holds.
AppendIf(ws, cond, x) == IF cond THEN Append(ws, x) ELSE ws

\* Variant: the division not guarded by df > 0.
LamUnguarded(w) ==
    IF w.df = 0 THEN Raise("ZeroDivisionError") ELSE Float(Div(w.lf, w.df))

\* lam = lf / df if df > 0 else float("nan")
Lam(w) == IF w.df > 0 THEN Float(Div(w.lf, w.df)) ELSE NaN

\* Variant: the checks chained with elif, so that the first failing one hides
\* the others.
ValidationShortCircuit(w) ==
    LET vf_dec == VfDec(w)
        fc == Fc(w)
        vf_lo == IF w.vf_mode = "Percent" THEN VF_PCT_MIN ELSE VF_DEC_MIN
        vf_hi == IF w.vf_mode = "Percent" THEN VF_PCT_MAX ELSE VF_DEC_MAX
        vf_kind == IF w.vf_mode = "Percent" THEN "vf_pct" ELSE "vf_dec"
        ws == IF vf_dec <= 0 \/ w.lf <= 0 \/ w.df <= 0 \/ fc <= 0
                  THEN << Warning("positive", 0) >>
              ELSE IF ~in_range(w.vf_in, vf_lo, vf_hi)
                  THEN << Warning(vf_kind, w.vf_in) >>
              ELSE IF ~in_range(fc, FC_MIN, FC_MAX)
                  THEN << Warning("fc", fc) >>
              ELSE IF ~in_range(Div(w.lf, w.df), LAMBDA_MIN, LAMBDA_MAX)
                  THEN << Warning("lambda", Div(w.lf, w.df)) >>
              ELSE IF w.calc_fr3 /\ ~in_range(w.ffu, FFU_MIN, FFU_MAX)
                  THEN << Warning("ffu", w.ffu) >>
              ELSE << >>
    IN  [ws |-> ws, exc |-> "none"]

\* Variant: the fc check placed before the Vf check.
ValidationReordered(w) ==
    LET vf_dec == VfDec(w)
        fc == Fc(w)
        w1 == AppendIf(<< >>, vf_dec <= 0 \/ w.lf <= 0 \/ w.df <= 0 \/ fc <= 0,
                       Warning("positive", 0))
        w2 == AppendIf(w1, ~in_range(fc, FC_MIN, FC_MAX), Warning("fc", fc))
        w3 == IF w.vf_mode = "Percent"
              THEN AppendIf(w2, ~in_range(w.vf_in, VF_PCT_MIN, VF_PCT_MAX),
                            Warning("vf_pct", w.vf_in))
              ELSE AppendIf(w2, ~in_range(w.vf_in, VF_DEC_MIN, VF_DEC_MAX),
                            Warning("vf_dec", w.vf_in))
        w4 == AppendIf(w3,
                       w.df > 0 /\ ~in_range(Div(w.lf, w.df), LAMBDA_MIN, LAMBDA_MAX),
                       Warning("lambda", IF w.df > 0 THEN Div(w.lf, w.df) ELSE 0))
        w5 == IF w.calc_fr3
              THEN AppendIf(w4, ~in_range(w.ffu, FFU_MIN, FFU_MAX),
                            Warning("ffu", w.ffu))
              ELSE w4
    IN  [ws |-> w5, exc |-> "none"]

\* The list `warnings` built by the block, and the exception (if any) that
\* ended the script inside it.
Validation(w) ==
    LET vf_dec == VfDec(w)
        fc == Fc(w)
        w0 == << >>
        \* Positivity
        w1 == AppendIf(w0, vf_dec <= 0 \/ w.lf <= 0 \/ w.df <= 0 \/ fc <= 0,
                       Warning("positive", 0))
        \* Vf
        w2 == IF w.vf_mode = "Percent"
              THEN AppendIf(w1, ~in_range(w.vf_in, VF_PCT_MIN, VF_PCT_MAX),
                            Warning("vf_pct", w.vf_in))
              ELSE AppendIf(w1, ~in_range(w.vf_in, VF_DEC_MIN, VF_DEC_MAX),
                            Warning("vf_dec", w.vf_in))
        \* fc
        w3 == AppendIf(w2, ~in_range(fc, FC_MIN, FC_MAX), Warning("fc", fc))
        \* lambda
        lam == Lam(w)
        w4 == AppendIf(w3, w.df > 0 /\ ~in_range(lam.v, LAMBDA_MIN, LAMBDA_MAX),
                       Warning("lambda", lam.v))
        \* ffu
        w5 == IF w.calc_fr3
              THEN AppendIf(w4, ~in_range(w.ffu, FFU_MIN, FFU_MAX),
                            Warning("ffu", w.ffu))
              ELSE w4
    IN  IF lam.t = "raise" THEN [ws |-> w3, exc |-> lam.exc]
        ELSE [ws |-> w5, exc |-> "none"]

\* can_compute = True; if (not allow_extrap) and warnings: can_compute = False
CanCompute(w, ws) == ~(~w.allow_extrap /\ ws # << >>)


(***************************************************************************)
(* Results branch                                                          *)
(***************************************************************************)
\* What one target's bordered container shows: the three metrics, the gamma
\* caption, the "set to 0.0" notice and the "Show calculation" expander.
NoResult ==
    [shown |-> FALSE, raw |-> 0, mean |-> 0, k |-> 0, d |-> 0, gamma |-> 0,
     notice |-> FALSE, calc |-> << >>]

Result(raw, mean, k, d, gamma, calc) ==
    [shown |-> TRUE, raw |-> raw, mean |-> mean, k |-> k, d |-> d,
     gamma |-> gamma, notice |-> raw < 0, calc |-> calc]

\* A block's outcome: its container, or the exception that ended the script.
Rendered(res) == [res |-> res, exc |-> "none"]

Aborted(e) == [res |-> NoResult, exc |-> e]

\* Variant: the design value derived from the characteristic value and gamma.
ScaledByGamma(raw, scale, calc) ==
    LET pred == clamp_nonnegative(raw)
    IN  IF raw.t = "raise" THEN Aborted(raw.exc)
        ELSE IF pred.t = "raise" THEN Aborted(pred.exc)
        ELSE Rendered(Result(raw.v, pred.v, Mul(scale.k_char, pred.v),
                             Div(Mul(scale.k_char, pred.v), scale.gamma),
                             scale.gamma, calc))

\* pred = clamp_nonnegative(raw); fk = k_char * pred; fd = k_design * pred
Scaled(raw, scale, calc) ==
    LET pred == clamp_nonnegative(raw)
    IN  IF raw.t = "raise" THEN Aborted(raw.exc)
        ELSE IF pred.t = "raise" THEN Aborted(pred.exc)
        ELSE Rendered(Result(raw.v, pred.v, Mul(scale.k_char, pred.v),
                             Mul(scale.k_design, pred.v), scale.gamma, calc))

\* if calc_fr1: ...
Fr1Block(w) ==
    Scaled(fr1_pred(VfDec(w), w.lf, w.df, Fc(w)), SCALE.fR1,
           << VfDec(w), Div(w.lf, w.df), Fc(w) >>)

\* if calc_fr3: ...
Fr3Block(w) ==
    Scaled(fr3_pred(VfDec(w), w.lf, w.df, Fc(w), w.ffu), SCALE.fR3,
           << VfDec(w), Div(w.lf, w.df), Fc(w), Div(w.ffu, 1000 * Q),
              Div(w.lf, 50 * Q) >>)

Panel(msg, r1, r3, exc, calls) ==
    [msg |-> msg, fr1 |-> r1, fr3 |-> r3, exc |-> exc, calls |-> calls]

\* Variant: both targets computed before anything is rendered, so that an
\* exception in either leaves no container at all.
ComputedAllOrNothing(w) ==
    IF w.df = 0 THEN Panel("results", NoResult, NoResult, "ZeroDivisionError", << >>)
    ELSE
        LET b1 == IF w.calc_fr1 THEN Fr1Block(w) ELSE Rendered(NoResult)
            b3 == IF w.calc_fr3 THEN Fr3Block(w) ELSE Rendered(NoResult)
            c1 == IF w.calc_fr1 THEN << "fr1_pred" >> ELSE << >>
            c3 == IF w.calc_fr3 THEN Append(c1, "fr3_pred") ELSE c1
        IN  IF b1.exc # "none" THEN Panel("results", NoResult, NoResult, b1.exc, c1)
            ELSE IF b3.exc # "none"
                THEN Panel("results", NoResult, NoResult, b3.exc, c3)
            ELSE Panel("results", b1.res, b3.res, "none", c3)

\* elif compute_btn: the two blocks in script order; an exception ends the
\* script and leaves what was rendered before it.
Computed(w) ==
    IF w.df = 0 THEN Panel("results", NoResult, NoResult, "ZeroDivisionError", << >>)
    ELSE
        LET b1 == IF w.calc_fr1 THEN Fr1Block(w) ELSE Rendered(NoResult)
            c1 == IF w.calc_fr1 THEN << "fr1_pred" >> ELSE << >>
        IN  IF b1.exc # "none" THEN Panel("results", NoResult, NoResult, b1.exc, c1)
            ELSE
                LET b3 == IF w.calc_fr3 THEN Fr3Block(w) ELSE Rendered(NoResult)
                    c3 == IF w.calc_fr3 THEN Append(c1, "fr3_pred") ELSE c1
                IN  Panel("results", b1.res, b3.res, b3.exc, c3)

\* Variant: the last computed panel kept across executions until the next click.
ResultsCached(w, compute_btn) ==
    IF ~(w.calc_fr1 \/ w.calc_fr3)
    THEN Panel("select", NoResult, NoResult, "none", << >>)
    ELSE IF compute_btn THEN Computed(w)
    ELSE IF panel.msg = "results" THEN panel
    ELSE Panel("prompt", NoResult, NoResult, "none", << >>)

Results(w, compute_btn) ==
    IF ~(w.calc_fr1 \/ w.calc_fr3)
    THEN Panel("select", NoResult, NoResult, "none", << >>)
    ELSE IF compute_btn THEN Computed(w)
    ELSE Panel("prompt", NoResult, NoResult, "none", << >>)

\* The "Method & equations" page renders neither validation nor results.
MethodPanel == Panel("method", NoResult, NoResult, "none", << >>)

(***************************************************************************)
(* One execution of the script                                             *)
(***************************************************************************)
\* What the button returns in this execution, given the click event.
ComputeBtn(clicked) == clicked

Script(w, clicked) ==
    /\ page' = w.page
    /\ vf_mode' = w.vf_mode
    /\ strength_mode' = w.strength_mode
    /\ allow_extrap' = w.allow_extrap
    /\ calc_fr1' = w.calc_fr1
    /\ calc_fr3' = w.calc_fr3
    /\ vf_in' = w.vf_in
    /\ lf' = w.lf
    /\ df' = w.df
    /\ strength_in' = w.strength_in
    /\ ffu' = w.ffu
    /\ IF w.page # "Calculator"
       THEN /\ warnings' = << >>
            /\ all_valid' = FALSE
            /\ can_compute' = FALSE
            /\ panel' = MethodPanel
       ELSE LET v == Validation(w)
            IN  IF v.exc # "none"
                THEN /\ warnings' = << >>
                     /\ all_valid' = FALSE
                     /\ can_compute' = FALSE
                     /\ panel' = Panel("aborted", NoResult, NoResult, v.exc, << >>)
                ELSE /\ warnings' = v.ws
                     /\ all_valid' = (v.ws = << >>)
                     /\ can_compute' = CanCompute(w, v.ws)
                     /\ panel' = Results(w, ComputeBtn(clicked))


(***************************************************************************)
(* Values the user enters                                                  *)
(***************************************************************************)
\* Number of presses of the "+" stepper of l_f (step=1.0) from its default.
MaxSteps == 1

\* Values the widgets accept (min_value: V_f >= 0, l_f >= 0.1, d_f >= 0.01,
\* f_c, f_cu >= 0.1, f_fu >= 0): the defaults, both ends of every validity
\* range and a value beyond each end.
WidgetValues ==
    [vf_pct |-> {0, 1500, 2000, 10000, 20000, 20500},
     vf_dec |-> {0, 15, 20, 100, 200, 205},
     lf     |-> {380000, 500000, 1000000} \cup {500000 + k * Q : k \in 1..MaxSteps},
     df     |-> {7500, 10000, 10100},
     fc     |-> {219000, 220000, 400000, 790000, 791000},
     fcu    |-> {260000, 500000, 970000},
     ffu    |-> {0, 10000000, 20000000, 32000000, 32100000}]

\* Arguments of any sign, for the validation block and the results branch
\* taken as functions of their inputs.
AnyValues ==
    [vf_pct |-> {-10000, 0, 1000, 10000},
     vf_dec |-> {-100, 0, 10, 100},
     lf     |-> {-500000, 0, 500000} \cup {500000 + k * Q : k \in 1..MaxSteps},
     df     |-> {-7500, 0, 7500, 15000},
     fc     |-> {-400000, 0, 400000, 800000},
     fcu    |-> {-500000, 0, 500000},
     ffu    |-> {-20000000, 0, 20000000, 32100000}]

VfValues(D, mode) == IF mode = "Percent" THEN D.vf_pct ELSE D.vf_dec

StrengthValues(D, mode) == IF mode = "fc" THEN D.fc ELSE D.fcu

(***************************************************************************)
(* Actions: one user event, then one execution of the script               *)
(***************************************************************************)
\* Sidebar radio "Navigation".  The calculator's widgets are created only on
\* the calculator page, so they are back at their value= defaults whenever
\* that page is entered.
SetPage ==
    \E p \in {"Calculator", "Method"} :
        /\ p # page
        /\ Script(CalculatorDefaults([Widgets EXCEPT !.page = p]), FALSE)

\* Sidebar radio "V_f input": each mode has its own number input.
SetVfMode ==
    \E m \in {"Percent", "Decimal"} :
        /\ m # vf_mode
        /\ Script([Widgets EXCEPT !.vf_mode = m, !.vf_in = VfDefault(m)], FALSE)

\* Sidebar radio "Concrete strength input": each mode has its own number input.
SetStrengthMode ==
    \E m \in {"fc", "fcu"} :
        /\ m # strength_mode
        /\ Script([Widgets EXCEPT !.strength_mode = m,
                                  !.strength_in = StrengthDefault(m)], FALSE)

ToggleAllowExtrap ==
    \E b \in BOOLEAN :
        /\ b # allow_extrap
        /\ Script([Widgets EXCEPT !.allow_extrap = b], FALSE)

ToggleCalcFr1 ==
    /\ page = "Calculator"
    /\ Script([Widgets EXCEPT !.calc_fr1 = ~calc_fr1], FALSE)

ToggleCalcFr3 ==
    /\ page = "Calculator"
    /\ Script([Widgets EXCEPT !.calc_fr3 = ~calc_fr3], FALSE)

SetVf(D) ==
    /\ page = "Calculator"
    /\ \E v \in VfValues(D, vf_mode) :
        /\ v # vf_in
        /\ Script([Widgets EXCEPT !.vf_in = v], FALSE)

SetLf(D) ==
    /\ page = "Calculator"
    /\ \E v \in D.lf :
        /\ v # lf
        /\ Script([Widgets EXCEPT !.lf = v], FALSE)

SetDf(D) ==
    /\ page = "Calculator"
    /\ \E v \in D.df :
        /\ v # df
        /\ Script([Widgets EXCEPT !.df = v], FALSE)

SetStrength(D) ==
    /\ page = "Calculator"
    /\ \E v \in StrengthValues(D, strength_mode) :
        /\ v # strength_in
        /\ Script([Widgets EXCEPT !.strength_in = v], FALSE)

SetFfu(D) ==
    /\ page = "Calculator"
    /\ \E v \in D.ffu :
        /\ v # ffu
        /\ Script([Widgets EXCEPT !.ffu = v], FALSE)

\* Variant: the button never rendered disabled.
ButtonNeverDisabled == FALSE

\* st.button("Compute", disabled=(not can_compute)) as rendered last.
ButtonDisabled == ~can_compute

\* A click on the Compute button: possible only on an enabled button.
ClickCompute ==
    /\ page = "Calculator"
    /\ ~ButtonDisabled
    /\ Script(Widgets, TRUE)

(***************************************************************************)
(* Specifications                                                          *)
(***************************************************************************)
\* The script's first execution: every widget at its default.
Init ==
    /\ page = "Calculator"
    /\ vf_mode = "Percent"
    /\ strength_mode = "fc"
    /\ allow_extrap = TRUE
    /\ calc_fr1 = TRUE
    /\ calc_fr3 = TRUE
    /\ vf_in = VfDefault("Percent")
    /\ lf = 500000
    /\ df = 7500
    /\ strength_in = StrengthDefault("fc")
    /\ ffu = 20000000
    /\ warnings = << >>
    /\ can_compute = TRUE
    /\ all_valid = TRUE
    /\ panel = Panel("prompt", NoResult, NoResult, "none", << >>)

Next ==
    \/ SetPage
    \/ SetVfMode
    \/ SetStrengthMode
    \/ ToggleAllowExtrap
    \/ ToggleCalcFr1
    \/ ToggleCalcFr3
    \/ SetVf(WidgetValues)
    \/ SetLf(WidgetValues)
    \/ SetDf(WidgetValues)
    \/ SetStrength(WidgetValues)
    \/ SetFfu(WidgetValues)
    \/ ClickCompute

Spec == Init /\ [][Next]_vars

\* The calculator page's script body applied to arguments of any sign.
NextCore ==
    \/ SetVfMode
    \/ SetStrengthMode
    \/ ToggleAllowExtrap
    \/ ToggleCalcFr1
    \/ ToggleCalcFr3
    \/ SetVf(AnyValues)
    \/ SetLf(AnyValues)
    \/ SetDf(AnyValues)
    \/ SetStrength(AnyValues)
    \/ SetFfu(AnyValues)
    \/ ClickCompute

SpecCore == Init /\ [][NextCore]_vars


(***************************************************************************)
(* Properties                                                              *)
(***************************************************************************)
Shown == {t \in {"fr1", "fr3"} : panel[t].shown}

WarningKinds == [i \in 1..Len(warnings) |-> warnings[i].kind]

HasWarning(kind) == \E i \in 1..Len(warnings) : warnings[i].kind = kind

VfKind == IF vf_mode = "Percent" THEN "vf_pct" ELSE "vf_dec"

VfOutOfRange ==
    IF vf_mode = "Percent" THEN vf_in < VF_PCT_MIN \/ vf_in > VF_PCT_MAX
    ELSE vf_in < VF_DEC_MIN \/ vf_in > VF_DEC_MAX

FcOutOfRange == Fc(Widgets) < FC_MIN \/ Fc(Widgets) > FC_MAX

\* lf/df outside [38, 100], stated without the division.
LambdaOutOfRange ==
    lf < (LAMBDA_MIN \div Q) * df \/ lf > (LAMBDA_MAX \div Q) * df

FfuOutOfRange == ffu < FFU_MIN \/ ffu > FFU_MAX

NotPositive == VfDec(Widgets) <= 0 \/ lf <= 0 \/ df <= 0 \/ Fc(Widgets) <= 0

\* C1: when extrapolation is not allowed and the violation list is not
\* empty, the Compute button is disabled, neither predictor was called in
\* the execution and no fR,1 or fR,3 result is shown.
C1_Gating ==
    (page = "Calculator" /\ ~allow_extrap /\ warnings # << >>)
        => (ButtonDisabled /\ panel.calls = << >> /\ Shown = {})

\* Both targets requested, extrapolation off, a violation reported.
C1_Witness ==
    /\ page = "Calculator"
    /\ ~allow_extrap
    /\ warnings # << >>
    /\ ButtonDisabled
    /\ panel.msg = "prompt"
    /\ calc_fr1 /\ calc_fr3

\* C2: a result is shown only for inputs inside the formula's domain
\* (Vf > 0, df > 0, lf/df > 0, fc > 0; for fR,3 also ffu > 0 and lf > 0);
\* outside it the outcome is an error, never numeric values.
C2_DomainError ==
    /\ panel.fr1.shown =>
        (VfDec(Widgets) > 0 /\ df > 0 /\ lf > 0 /\ Fc(Widgets) > 0)
    /\ panel.fr3.shown =>
        (VfDec(Widgets) > 0 /\ df > 0 /\ lf > 0 /\ Fc(Widgets) > 0 /\ ffu > 0)

\* Each target's block evaluated on its own.
Fr1Succeeds == df # 0 /\ Fr1Block(Widgets).exc = "none"

Fr3Succeeds == df # 0 /\ Fr3Block(Widgets).exc = "none"

\* C3: after a click with both targets requested, each target whose own
\* evaluation succeeds has its result shown, whatever happened to the other.
C3_NoPartialFailure ==
    (panel.msg = "results" /\ calc_fr1 /\ calc_fr3)
        => /\ Fr1Succeeds => panel.fr1.shown
           /\ Fr3Succeeds => panel.fr3.shown

\* fR,3 raised and the fR,1 result is shown.
C3_Witness ==
    /\ panel.msg = "results"
    /\ calc_fr1 /\ calc_fr3
    /\ panel.exc = "TypeError"
    /\ ~Fr3Succeeds
    /\ panel.fr1.shown
    /\ ~panel.fr3.shown

\* Which of the five checks fails on the current inputs, each decided alone.
CheckFails(kind) ==
    CASE kind = "positive" -> NotPositive
      [] kind \in {"vf_pct", "vf_dec"} -> VfOutOfRange
      [] kind = "fc" -> FcOutOfRange
      [] kind = "lambda" -> df > 0 /\ LambdaOutOfRange
      [] kind = "ffu" -> calc_fr3 /\ FfuOutOfRange

\* C4: the violation list is exactly the sub-sequence of [positivity, Vf,
\* fc, slenderness, ffu] whose checks fail, in that order, and the
\* "all within limits" verdict is given exactly when no check fails.
C4_ValidationOrder ==
    page = "Calculator" =>
        /\ WarningKinds =
               SelectSeq(<< "positive", VfKind, "fc", "lambda", "ffu" >>, CheckFails)
        /\ all_valid <=>
               \A k \in {"positive", VfKind, "fc", "lambda", "ffu"} : ~CheckFails(k)

\* Several checks fail at once, a later one among them.
C4_Witness ==
    /\ page = "Calculator"
    /\ Len(warnings) >= 3
    /\ ~HasWarning("positive")
    /\ HasWarning("ffu")

\* C5: for df <= 0 validation completes, reports the positivity violation
\* and reports no slenderness violation.
C5_ZeroDiameter ==
    (page = "Calculator" /\ df <= 0)
        => /\ panel.msg # "aborted"
           /\ HasWarning("positive")
           /\ ~HasWarning("lambda")

\* df = 0 with every other input valid.
C5_Witness ==
    /\ page = "Calculator"
    /\ df = 0
    /\ WarningKinds = << "positive" >>

\* A message that names Vf: the Vf range message or the combined positivity
\* message.
NamesVf(kind) == kind \in {"positive", "vf_pct", "vf_dec"}

\* C6 as claimed: Vf outside its range gives exactly one message naming Vf.
C6_ExactlyOneVfMessage ==
    (page = "Calculator" /\ VfOutOfRange)
        => /\ ~all_valid
           /\ Cardinality({i \in 1..Len(warnings) : NamesVf(warnings[i].kind)}) = 1

\* C6 as amended: Vf outside its range gives exactly one Vf range message,
\* whatever the other inputs are; the only other message naming Vf is the
\* combined positivity message, present exactly when Vf, lf, df or fc is
\* not positive.
C6_ExactlyOneVfRangeMessage ==
    (page = "Calculator" /\ VfOutOfRange)
        => /\ ~all_valid
           /\ Cardinality({i \in 1..Len(warnings) : warnings[i].kind = VfKind}) = 1
           /\ HasWarning("positive") <=> NotPositive
           /\ \A i \in 1..Len(warnings) :
                  NamesVf(warnings[i].kind) => warnings[i].kind \in {"positive", VfKind}

\* Vf positive and below range, another input out of range too.
C6_Witness ==
    /\ page = "Calculator"
    /\ VfOutOfRange
    /\ vf_in > 0
    /\ FcOutOfRange
    /\ HasWarning(VfKind)

\* C7: a shown mean is max(0, raw), is never negative, is a fixed point of
\* the clamp, and the "set to zero" notice is shown exactly when raw < 0.
C7_Clamp ==
    \A t \in Shown :
        /\ panel[t].mean = (IF panel[t].raw < 0 THEN 0 ELSE panel[t].raw)
        /\ panel[t].mean >= 0
        /\ clamp_nonnegative(Float(panel[t].mean)) = Float(panel[t].mean)
        /\ panel[t].notice <=> panel[t].raw < 0
        /\ panel[t].notice => panel[t].mean = 0

\* A negative raw fR,1 on inputs inside the formula's domain, next to a
\* positive fR,3.
C7_Witness ==
    /\ Shown = {"fr1", "fr3"}
    /\ VfDec(Widgets) > 0
    /\ panel.fr1.raw < 0
    /\ panel.fr1.notice
    /\ panel.fr3.raw > 0

\* C8: a value equal to MIN or MAX of its range gives no range violation; a
\* value below MIN or above MAX gives one (lambda for df > 0, ffu when fR,3
\* is requested).
C8_InclusiveBounds ==
    page = "Calculator" =>
        /\ vf_mode = "Percent" /\ vf_in \in {VF_PCT_MIN, VF_PCT_MAX} => ~HasWarning("vf_pct")
        /\ vf_mode = "Decimal" /\ vf_in \in {VF_DEC_MIN, VF_DEC_MAX} => ~HasWarning("vf_dec")
        /\ Fc(Widgets) \in {FC_MIN, FC_MAX} => ~HasWarning("fc")
        /\ df > 0 /\ Div(lf, df) \in {LAMBDA_MIN, LAMBDA_MAX} => ~HasWarning("lambda")
        /\ ffu \in {FFU_MIN, FFU_MAX} => ~HasWarning("ffu")
        /\ VfOutOfRange => HasWarning(VfKind)
        /\ FcOutOfRange => HasWarning("fc")
        /\ df > 0 /\ LambdaOutOfRange => HasWarning("lambda")
        /\ calc_fr3 /\ FfuOutOfRange => HasWarning("ffu")

\* Every variable at an end of its range, and the inputs valid.
C8_Witness ==
    /\ page = "Calculator"
    /\ vf_in = (IF vf_mode = "Percent" THEN VF_PCT_MAX ELSE VF_DEC_MAX)
    /\ Fc(Widgets) = FC_MIN
    /\ Div(lf, df) = LAMBDA_MAX
    /\ ffu = FFU_MAX
    /\ calc_fr3
    /\ all_valid

\* C9: a shown characteristic value is k_char * mean and a shown design value
\* is k_design * mean, with 0.67 / 0.49 for fR,1 and 0.62 / 0.43 for fR,3;
\* gamma (1.36, 1.45) is shown and enters neither.
C9_Scaling ==
    /\ panel.fr1.shown =>
        /\ panel.fr1.k = Mul(6700, panel.fr1.mean)
        /\ panel.fr1.d = Mul(4900, panel.fr1.mean)
        /\ panel.fr1.gamma = 13600
    /\ panel.fr3.shown =>
        /\ panel.fr3.k = Mul(6200, panel.fr3.mean)
        /\ panel.fr3.d = Mul(4300, panel.fr3.mean)
        /\ panel.fr3.gamma = 14500

\* Both targets shown with a positive mean.
C9_Witness ==
    /\ Shown = {"fr1", "fr3"}
    /\ panel.fr1.mean > 0
    /\ panel.fr3.mean > 0
    /\ panel.fr1.d > 0

\* The inputs a result depends on.
Inputs == [Widgets EXCEPT !.page = "Calculator"]

\* C10: in every step, what is shown afterwards was computed from the inputs
\* as they are afterwards and from nothing else, and a step that changes an
\* input or a flag leaves no result shown.
C10_Lifecycle ==
    [][ /\ panel'.fr1.shown => panel'.fr1 = Fr1Block(Widgets').res
        /\ panel'.fr3.shown => panel'.fr3 = Fr3Block(Widgets').res
        /\ Inputs' # Inputs => (~panel'.fr1.shown /\ ~panel'.fr3.shown) ]_vars

\* A result shown for inputs edited since the first execution.
C10_Witness ==
    /\ Shown = {"fr1", "fr3"}
    /\ lf # 500000
    /\ vf_in # VfDefault(vf_mode)
    /\ ffu # 20000000

====
